---- MODULE Spec2Model ----
(***************************************************************************)
(* Model of the workflow engine of libsimba_eth/workflow.py: the plan      *)
(* model and its validator (Workflow.check), the dependency resolver       *)
(* (Executor.dependencies), the four action handlers and the resumable     *)
(* driver (Executor.deploy).                                               *)
(*                                                                         *)
(* Python objects are references: an Action promoted into                  *)
(* workflow.completed is the same object that workflow.actions held.  The  *)
(* model keeps the Action objects in a heap `act`, indexed by the position *)
(* the action had in the original plan; `actions` is a sequence of such    *)
(* ids and `completed` maps a key to an id (0 = key absent).               *)
(*                                                                         *)
(* deploy() is a coroutine that can only be suspended at its `await`s on   *)
(* Executor operations.  One model action runs the code from one           *)
(* suspension point to the next.                                           *)
(***************************************************************************)
EXTENDS Integers, Sequences, FiniteSets, TLC

\* ---------------------------------------------------------------- bounds
\* longest plan drawn by Init
MaxLen == 3

\* ------------------------------------------------------------ vocabulary
\* Python None (for optional strings)
NoneV == "None"
\* contract names a plan may use
Names == {"A", "B"}
SIMBA_PROXY == "SIMBAProxy"
\* the name of a contract that links against libraries
LinkedName == "C"
\* keys workflow.completed can get: a contract_name, the proxy name, or None
Keys == Names \cup {LinkedName, SIMBA_PROXY, NoneV}

DEPLOY_LIBRARY == "DEPLOY_LIBRARY"
DEPLOY_CONTRACT == "DEPLOY_CONTRACT"
METHOD_CALL == "METHOD_CALL"
DEPLOY_PROXY == "DEPLOY_PROXY"
ActionType == {DEPLOY_LIBRARY, DEPLOY_CONTRACT, METHOD_CALL, DEPLOY_PROXY}

LIBRARY == "LIBRARY"
CONSTRUCTOR == "CONSTRUCTOR"
CONTRACT == "CONTRACT"
IMPL == "IMPL"
DependencyType == {LIBRARY, CONSTRUCTOR, CONTRACT, IMPL}

INITED == "INITED"
COMPILED == "COMPILED"
COMPLETED == "COMPLETED"
FAILED_COMPILE == "FAILED_COMPILE"
FAILED_COMPLETE == "FAILED_COMPLETE"
FAILED_METHOD_CALL == "FAILED_METHOD_CALL"
FAILED_SET_PROXY == "FAILED_SET_PROXY"
FAILED_DEPENDENCIES == "FAILED_DEPENDENCIES"
INVALID_STATE == "INVALID_STATE"
ActionState == {INITED, COMPILED, COMPLETED, FAILED_COMPILE, FAILED_COMPLETE,
                FAILED_METHOD_CALL, FAILED_SET_PROXY, FAILED_DEPENDENCIES,
                INVALID_STATE}

\* ------------------------------------------------------------ data model
\* Optional[Contract]: `some` is FALSE for None.  abi and metadata are set
\* together or not at all; `metadata` stands for both and keeps its
\* default, None, unless an operation sets it.
Contract(design_id, address, id, api_name) ==
    [some |-> TRUE, design_id |-> design_id, address |-> address,
     id |-> id, api_name |-> api_name, metadata |-> NoneV]
NoContract ==
    [some |-> FALSE, design_id |-> NoneV, address |-> NoneV,
     id |-> NoneV, api_name |-> NoneV, metadata |-> NoneV]

\* Optional[Dict[str, ...]]: `some` is FALSE for None, kv the set of
\* <<key, value>> items
NoDict == [some |-> FALSE, kv |-> {}]
EmptyDict == [some |-> TRUE, kv |-> {}]
\* an assignment that drops the items the dict already had
DictSet_only(kv, k, v) == {<<k, v>>}
\* d[k] = v on a dict
DictSet(kv, k, v) == {p \in kv : p[1] # k} \cup {<<k, v>>}

Dependency(dependency_type, parent) ==
    [dependency_type |-> dependency_type, parent |-> parent,
     target_arg |-> IF dependency_type = CONSTRUCTOR THEN "owner" ELSE NoneV,
     method_name |-> IF dependency_type = IMPL THEN "initialize" ELSE NoneV]

\* an Action as its constructor leaves it; the fields after `contract`
\* keep their declared defaults
Action(action_type, contract_name, dependencies, args, action_state, contract) ==
    [action_type |-> action_type,
     contract_name |-> contract_name,
     code |-> IF action_type \in {DEPLOY_LIBRARY, DEPLOY_CONTRACT}
              THEN "source" ELSE NoneV,
     dependencies |-> dependencies,
     api_name |-> IF action_type = DEPLOY_LIBRARY THEN NoneV ELSE "api",
     args |-> args,
     action_state |-> action_state,
     contract |-> contract,
     impl_contract |-> NoContract,
     encode |-> TRUE,
     error_message |-> NoneV,
     method_name |-> IF action_type = METHOD_CALL THEN "method" ELSE NoneV,
     libraries |-> NoDict]

\* ------------------------------------------------------------- validator
\* Action.check_by_type: the fields each action type requires
check_by_type(a) ==
    CASE a.action_type = DEPLOY_LIBRARY ->
            a.contract_name # NoneV /\ a.code # NoneV
      [] a.action_type = DEPLOY_CONTRACT ->
            a.contract_name # NoneV /\ a.code # NoneV /\ a.api_name # NoneV
      [] a.action_type = METHOD_CALL ->
            a.method_name # NoneV /\ a.api_name # NoneV
      [] a.action_type = DEPLOY_PROXY ->
            a.api_name # NoneV

\* a validator without the rule that a DEPLOY_PROXY needs an IMPL dependency
check_without_impl_rule(as) ==
    /\ Len(as) > 0
    /\ \A n \in 1..Len(as) :
         LET action == as[n]
             previous == {as[m].contract_name : m \in 1..(n - 1)}
             deps == action.dependencies
         IN  /\ check_by_type(action)
             /\ ~(n = 1 /\ Len(deps) > 0)
             /\ \A k \in 1..Len(deps) :
                  ~(deps[k].parent # "" /\ deps[k].parent \notin previous)

\* Workflow.check: TRUE when the root validator raises nothing.  `previous`
\* is the list of contract_name values (None included) of earlier actions.
check(as) ==
    /\ Len(as) > 0
    /\ \A n \in 1..Len(as) :
         LET action == as[n]
             previous == {as[m].contract_name : m \in 1..(n - 1)}
             deps == action.dependencies
             got_impl_dep == \E k \in 1..Len(deps) : deps[k].dependency_type = IMPL
         IN  /\ check_by_type(action)
             /\ ~(n = 1 /\ Len(deps) > 0)
             /\ \A k \in 1..Len(deps) :
                  ~(deps[k].parent # "" /\ deps[k].parent \notin previous)
             /\ ~(action.action_type = DEPLOY_PROXY /\ ~got_impl_dep)

\* -------------------------------------------------------------- executor
\* The Executor operations are abstract.  Their success values are taken
\* to be determined by their inputs: the opaque identifiers the platform
\* hands out are modelled as tokens derived from the name involved.
\* A failure returns (None, error string).
AddressOf(name) ==
    CASE name = "A" -> "0xA"
      [] name = "B" -> "0xB"
      [] name = SIMBA_PROXY -> "0xProxy"
      [] OTHER -> "0x0"
DesignOf(name) ==
    CASE name = "A" -> "designA"
      [] name = "B" -> "designB"
      [] name = SIMBA_PROXY -> "designProxy"
      [] OTHER -> "design0"
AddressOfDesign(design_id) ==
    CASE design_id = "designA" -> "0xA"
      [] design_id = "designB" -> "0xB"
      [] design_id = "designProxy" -> "0xProxy"
      [] OTHER -> "0x0"

\* SimbaExecutor.deploy_library: Contract(api_name=lib_name, address=...)
deploy_library(lib_name) ==
    Contract(NoneV, AddressOf(lib_name), NoneV, lib_name)
\* compile_contract: a Contract that carries the design_id, the abi and
\* the metadata of the compiled design
compile_contract(name) ==
    [Contract(DesignOf(name), NoneV, NoneV, NoneV) EXCEPT !.metadata = "metadata"]
\* deploy_contract: the contract given, with address, id and api_name set
deploy_contract(contract, api_name) ==
    [contract EXCEPT !.address = AddressOfDesign(contract.design_id),
                     !.id = contract.design_id,
                     !.api_name = api_name]

\* the error string each Executor operation returns when it fails
ErrorOf(op) ==
    CASE op = "deploy_library" -> "could not deploy lib"
      [] op = "compile_contract" -> "could not compile design"
      [] op = "deploy_contract" -> "could not deploy contract"
      [] op = "submit_transaction" -> "could not submit transaction"
      [] op = "set_proxy" -> "could not set proxy"

\* Executor.load_proxy_encoded: the fixed proxy asset
load_proxy_encoded == "proxySource"
\* Executor.encode_calldata: {"_logic": address, "_data": encoded}
encode_calldata(deployed_contract, method_name) ==
    [some |-> TRUE,
     kv |-> {<<"_logic", deployed_contract.address>>, <<"_data", method_name>>}]

\* -------------------------------------------------------------- resolver
\* a resolver whose early return carries no message
DependencyError_blank(parent) == NoneV

\* f"Dependency on contract {parent} cannot be resolved"
DependencyError(parent) ==
    CASE parent = "A" -> "Dependency on contract A cannot be resolved"
      [] parent = "B" -> "Dependency on contract B cannot be resolved"
      [] OTHER -> "Dependency on contract ? cannot be resolved"

\* a resolver that carries on although the parent is not in completed
unresolved_ignored(a, parent) ==
    [action |-> a, carry_on |-> TRUE, err |-> NoneV, raised |-> FALSE]

\* return False, f"Dependency on contract {parent} cannot be resolved"
unresolved(a, parent) ==
    [action |-> a, carry_on |-> FALSE, err |-> DependencyError(parent),
     raised |-> FALSE]

\* completed.get(parent): the Action object stored under the key, read
\* through the heap; `self` is the id of the action being resolved, whose
\* current value is `a`
Lookup(self, a, heap, id) == IF id = self THEN a ELSE heap[id]

\* the for loop of Executor.dependencies from the k-th dependency on;
\* result: the mutated action, (carry_on, err), and whether the loop raised.
\* action.libraries = libs is the last statement of the loop body, so it
\* is reached by every iteration that neither returns nor raises.
RECURSIVE dependencies_loop(_, _, _, _, _, _)
dependencies_loop(self, a, libs, k, completed, heap) ==
    IF k > Len(a.dependencies)
    THEN [action |-> a, carry_on |-> TRUE, err |-> NoneV, raised |-> FALSE]
    ELSE
      LET dep == a.dependencies[k]
          parent == dep.parent
          prev == IF parent \in DOMAIN completed THEN completed[parent] ELSE 0
      IN
      IF prev = 0 THEN unresolved(a, parent)
      ELSE
        LET prev_contract == Lookup(self, a, heap, prev).contract IN
        IF ~prev_contract.some THEN unresolved(a, parent)
        ELSE
          CASE dep.dependency_type = LIBRARY ->
                 LET libs2 == DictSet(libs, parent, prev_contract.address) IN
                 dependencies_loop(self,
                     [a EXCEPT !.libraries = [some |-> TRUE, kv |-> libs2]],
                     libs2, k + 1, completed, heap)
            [] dep.dependency_type = CONSTRUCTOR ->
                 IF ~a.args.some
                 THEN \* None[target_arg] = ... raises TypeError
                      [action |-> a, carry_on |-> FALSE, err |-> NoneV,
                       raised |-> TRUE]
                 ELSE dependencies_loop(self,
                     [a EXCEPT !.args.kv = DictSet(a.args.kv, dep.target_arg,
                                                   prev_contract.address),
                               !.libraries = [some |-> TRUE, kv |-> libs]],
                     libs, k + 1, completed, heap)
            [] dep.dependency_type = CONTRACT ->
                 dependencies_loop(self,
                     [a EXCEPT !.contract = prev_contract,
                               !.libraries = [some |-> TRUE, kv |-> libs]],
                     libs, k + 1, completed, heap)
            [] dep.dependency_type = IMPL ->
                 LET a1 == [a EXCEPT !.impl_contract = prev_contract,
                                     !.code = load_proxy_encoded,
                                     !.encode = FALSE,
                                     !.contract_name = SIMBA_PROXY]
                 IN
                 IF prev_contract.metadata = NoneV
                 THEN \* encode_calldata: None.get(...) raises AttributeError
                      [action |-> a1, carry_on |-> FALSE, err |-> NoneV,
                       raised |-> TRUE]
                 ELSE dependencies_loop(self,
                     [a1 EXCEPT !.args = encode_calldata(prev_contract,
                                                         dep.method_name),
                                !.libraries = [some |-> TRUE, kv |-> libs]],
                     libs, k + 1, completed, heap)

\* a resolver that does not resolve again an action whose libraries it has
\* already assigned
dependencies_once(self, a, completed, heap) ==
    IF a.action_state = COMPLETED \/ a.libraries.some
    THEN [action |-> a, carry_on |-> FALSE, err |-> NoneV, raised |-> FALSE]
    ELSE dependencies_loop(self, a, {}, 1, completed, heap)

\* Executor.dependencies
dependencies(self, a, completed, heap) ==
    IF a.action_state = COMPLETED
    THEN [action |-> a, carry_on |-> FALSE, err |-> NoneV, raised |-> FALSE]
    ELSE dependencies_loop(self, a, {}, 1, completed, heap)

\* The resolver with `action.libraries = libs` moved out of the loop body
\* to just before `return True, None`: the placement the resolver as
\* written is compared with.  An early return or a raise leaves libraries
\* as it was.
RECURSIVE dependencies_loop_after(_, _, _, _, _, _)
dependencies_loop_after(self, a, libs, k, completed, heap) ==
    IF k > Len(a.dependencies)
    THEN [action |-> [a EXCEPT !.libraries = [some |-> TRUE, kv |-> libs]],
          carry_on |-> TRUE, err |-> NoneV, raised |-> FALSE]
    ELSE
      LET dep == a.dependencies[k]
          parent == dep.parent
          prev == IF parent \in DOMAIN completed THEN completed[parent] ELSE 0
      IN
      IF prev = 0 THEN unresolved(a, parent)
      ELSE
        LET prev_contract == Lookup(self, a, heap, prev).contract IN
        IF ~prev_contract.some THEN unresolved(a, parent)
        ELSE
          CASE dep.dependency_type = LIBRARY ->
                 dependencies_loop_after(self, a,
                     DictSet(libs, parent, prev_contract.address),
                     k + 1, completed, heap)
            [] dep.dependency_type = CONSTRUCTOR ->
                 IF ~a.args.some
                 THEN [action |-> a, carry_on |-> FALSE, err |-> NoneV,
                       raised |-> TRUE]
                 ELSE dependencies_loop_after(self,
                     [a EXCEPT !.args.kv = DictSet(a.args.kv, dep.target_arg,
                                                   prev_contract.address)],
                     libs, k + 1, completed, heap)
            [] dep.dependency_type = CONTRACT ->
                 dependencies_loop_after(self,
                     [a EXCEPT !.contract = prev_contract],
                     libs, k + 1, completed, heap)
            [] dep.dependency_type = IMPL ->
                 LET a1 == [a EXCEPT !.impl_contract = prev_contract,
                                     !.code = load_proxy_encoded,
                                     !.encode = FALSE,
                                     !.contract_name = SIMBA_PROXY]
                 IN
                 IF prev_contract.metadata = NoneV
                 THEN [action |-> a1, carry_on |-> FALSE, err |-> NoneV,
                       raised |-> TRUE]
                 ELSE dependencies_loop_after(self,
                     [a1 EXCEPT !.args = encode_calldata(prev_contract,
                                                         dep.method_name)],
                     libs, k + 1, completed, heap)

dependencies_after(self, a, completed, heap) ==
    IF a.action_state = COMPLETED
    THEN [action |-> a, carry_on |-> FALSE, err |-> NoneV, raised |-> FALSE]
    ELSE dependencies_loop_after(self, a, {}, 1, completed, heap)

\* -------------------------------------------------------------- handlers
\* Each handler is cut at its awaits.  A piece takes the action and what
\* the awaited Executor operation returned, (value, err), and gives the
\* mutated action and carry_on (FALSE: the handler returned (action, False)).

\* a library handler that does not record the contract it finds attached
handle_deploy_library_enter_quiet(a) == a

\* handle_deploy_library up to its await
handle_deploy_library_enter(a) ==
    IF a.contract.some
    THEN [a EXCEPT !.action_state = INVALID_STATE,
                   !.error_message = "Contract already exists"]
    ELSE a

\* a library handler that records a failed deploy_library as a compile
\* failure
handle_deploy_library_result_compile(a, contract, err) ==
    IF err # NoneV
    THEN [action |-> [a EXCEPT !.action_state = FAILED_COMPILE,
                               !.error_message = err],
          carry_on |-> FALSE]
    ELSE [action |-> [a EXCEPT !.contract = contract,
                               !.action_state = COMPLETED,
                               !.error_message = NoneV],
          carry_on |-> TRUE]

\* handle_deploy_library after deploy_library returned
handle_deploy_library_result(a, contract, err) ==
    IF err # NoneV
    THEN [action |-> [a EXCEPT !.action_state = FAILED_COMPLETE,
                               !.error_message = err],
          carry_on |-> FALSE]
    ELSE [action |-> [a EXCEPT !.contract = contract,
                               !.action_state = COMPLETED,
                               !.error_message = NoneV],
          carry_on |-> TRUE]

\* a handler that compiles on every entry
needs_compile_always(a) ==
    a.action_state \in ActionState

\* a handler that compiles only when the action has no compiled contract
needs_compile_lazy(a) ==
    \/ ~a.contract.some
    \/ a.contract.design_id = NoneV

\* handle_deploy_contract: the condition under which phase 1 (compile) runs
needs_compile(a) ==
    \/ ~a.contract.some
    \/ a.contract.design_id = NoneV
    \/ a.action_state = FAILED_COMPILE

\* handle_deploy_contract after compile_contract returned
handle_deploy_contract_compiled(a, contract, err) ==
    IF err # NoneV
    THEN [action |-> [a EXCEPT !.action_state = FAILED_COMPILE,
                               !.error_message = err],
          carry_on |-> FALSE]
    ELSE [action |-> [a EXCEPT !.contract = contract,
                               !.action_state = COMPILED,
                               !.error_message = NoneV],
          carry_on |-> TRUE]

\* handle_deploy_contract after deploy_contract returned; on an error the
\* message is assigned and then overwritten with None
handle_deploy_contract_deployed(a, contract, err) ==
    IF err # NoneV
    THEN [action |-> [[a EXCEPT !.action_state = FAILED_COMPLETE,
                                !.error_message = err]
                         EXCEPT !.error_message = NoneV],
          carry_on |-> FALSE]
    ELSE [action |-> [a EXCEPT !.contract = contract,
                               !.action_state = COMPLETED],
          carry_on |-> TRUE]

\* handle_methodcall after submit_transaction returned
handle_methodcall_result(a, err) ==
    IF err # NoneV
    THEN [action |-> [a EXCEPT !.action_state = FAILED_METHOD_CALL,
                               !.error_message = err],
          carry_on |-> FALSE]
    ELSE [action |-> [a EXCEPT !.action_state = COMPLETED,
                               !.error_message = NoneV],
          carry_on |-> TRUE]

\* a proxy handler that records a failed set_proxy as a deploy failure
handle_deploy_proxy_result_complete(a, err) ==
    IF err # NoneV
    THEN [action |-> [a EXCEPT !.action_state = FAILED_COMPLETE,
                               !.error_message = err],
          carry_on |-> FALSE]
    ELSE [action |-> a, carry_on |-> TRUE]

\* handle_deploy_proxy after set_proxy returned; success leaves the
\* action's state as it is
handle_deploy_proxy_result(a, err) ==
    IF err # NoneV
    THEN [action |-> [a EXCEPT !.action_state = FAILED_SET_PROXY,
                               !.error_message = err],
          carry_on |-> FALSE]
    ELSE [action |-> a, carry_on |-> TRUE]

\* ----------------------------------------------------------------- plans
\* a contract supplied by the caller (deployed elsewhere, never compiled here)
SeedContract == Contract(NoneV, "0xSeed", "seed", "seedApi")

\* The actions plans are drawn from.  Names are opaque to the engine, so
\* "A" is taken as the name introduced first and "B" as the second: a
\* dependency always has parent "A", except for a proxy over "B" and a
\* method call on "B".
LibraryActions ==
    {Action(DEPLOY_LIBRARY, "A", <<>>, NoDict, INITED, c) :
        c \in {NoContract, SeedContract}}
    \cup {Action(DEPLOY_LIBRARY, "B", <<>>, NoDict, INITED, NoContract)}
ContractActions ==
    {Action(DEPLOY_CONTRACT, n, <<>>, NoDict, INITED, NoContract) : n \in Names}
    \cup
    {Action(DEPLOY_CONTRACT, "B", <<Dependency(t, "A")>>, NoDict, INITED,
            NoContract) : t \in {LIBRARY, CONSTRUCTOR, CONTRACT}}
    \cup
    {Action(DEPLOY_CONTRACT, "B", <<Dependency(CONSTRUCTOR, "A")>>, EmptyDict,
            INITED, NoContract)}
MethodCallActions ==
    {Action(METHOD_CALL, NoneV, <<>>, NoDict, INITED, c) :
        c \in {NoContract, SeedContract}}
    \cup
    {Action(METHOD_CALL, NoneV, <<Dependency(CONTRACT, p)>>, NoDict, INITED,
            NoContract) : p \in Names}
ProxyActions ==
    {Action(DEPLOY_PROXY, np[1], <<Dependency(IMPL, np[2])>>, NoDict, INITED,
            NoContract) :
        np \in {<<NoneV, "A">>, <<"B", "A">>, <<NoneV, "B">>}}
ActionPool ==
    LibraryActions \cup ContractActions \cup MethodCallActions \cup ProxyActions

\* contracts named "C" with several dependencies: libraries in either
\* order, one library twice, a library mixed with a constructor or contract
\* dependency
LinkedDependencies ==
    {<<Dependency(LIBRARY, "A")>>,
     <<Dependency(LIBRARY, "A"), Dependency(LIBRARY, "B")>>,
     <<Dependency(LIBRARY, "B"), Dependency(LIBRARY, "A")>>,
     <<Dependency(LIBRARY, "A"), Dependency(LIBRARY, "A")>>,
     <<Dependency(LIBRARY, "A"), Dependency(CONSTRUCTOR, "B")>>,
     <<Dependency(CONSTRUCTOR, "B"), Dependency(LIBRARY, "A")>>,
     <<Dependency(LIBRARY, "B"), Dependency(CONTRACT, "A")>>}
LinkedActions ==
    {Action(DEPLOY_CONTRACT, LinkedName, d, EmptyDict, INITED, NoContract) :
        d \in LinkedDependencies}
    \cup
    {Action(DEPLOY_CONTRACT, LinkedName,
            <<Dependency(LIBRARY, "A"), Dependency(CONSTRUCTOR, "A")>>,
            NoDict, INITED, NoContract)}
\* the actions the plans with a linked contract are drawn from
LinkPool ==
    {a \in LibraryActions : ~a.contract.some}
    \cup {Action(DEPLOY_CONTRACT, "A", <<>>, NoDict, INITED, NoContract)}
    \cup LinkedActions
    \cup MethodCallActions
    \cup {a \in ProxyActions : a.dependencies[1].parent = "A"}

\* "B" names an action only after "A" has named an earlier one
NamesInOrder(p) ==
    \A n \in 1..Len(p) :
        p[n].contract_name = "B" =>
            \E m \in 1..(n - 1) : p[m].contract_name = "A"

\* an action the caller hands over with action_state already COMPLETED
\* (the case the resolver's first branch is there for)
CompletedOnEntry ==
    {Action(DEPLOY_LIBRARY, "A", <<>>, NoDict, COMPLETED, SeedContract)}

\* an action the caller hands over in state FAILED_COMPILE although its
\* contract carries the design_id of some earlier compile
FailedCompileOnEntry ==
    {Action(DEPLOY_CONTRACT, "A", <<>>, NoDict, FAILED_COMPILE,
            compile_contract("A"))}

\* the plans over `pool` that the Workflow constructor accepts
PlansOver(pool) ==
    {p \in UNION {[1..n -> pool] : n \in 1..MaxLen} :
        NamesInOrder(p) /\ check(p)}
\* plans whose actions have the default action_state, INITED
Plans == PlansOver(ActionPool)
\* plans that may also hold actions that are COMPLETED on entry
SeededPlans == PlansOver(ActionPool \cup CompletedOnEntry)
\* plans over the pool with linked contracts
LinkPlans == PlansOver(LinkPool)
\* plans handed over for resumption: the first action is FAILED_COMPILE on
\* entry
ResumedPlans ==
    {p \in PlansOver(ActionPool \cup FailedCompileOnEntry) :
        p[1] \in FailedCompileOnEntry}

\* a contract whose resolution attaches the parent's contract and then
\* raises: the CONSTRUCTOR dependency finds args None
HalfResolved ==
    {Action(DEPLOY_CONTRACT, "B",
            <<Dependency(CONTRACT, "A"), Dependency(CONSTRUCTOR, "A")>>,
            NoDict, INITED, NoContract)}
\* plans of actions without a contract that may hold such an action
BarePlans ==
    PlansOver({a \in ActionPool : ~a.contract.some} \cup HalfResolved)

\* a proxy that, besides its implementation, names a parent whose contract
\* it adopts
AdoptingProxy ==
    {Action(DEPLOY_PROXY, NoneV,
            <<Dependency(IMPL, "B"), Dependency(CONTRACT, "A")>>,
            NoDict, INITED, NoContract)}
\* plans of actions without a contract that may hold such a proxy
AdoptingPlans ==
    PlansOver({a \in ActionPool : ~a.contract.some} \cup AdoptingProxy)

\* Candidate plans for the Workflow constructor, valid or not: dependencies
\* on an earlier, a later or no action, on the action itself, with an empty
\* parent; proxies with and without an IMPL dependency.
CandidatePool ==
    {Action(DEPLOY_LIBRARY, "A", <<>>, NoDict, INITED, NoContract),
     Action(DEPLOY_CONTRACT, "B", <<>>, NoDict, INITED, NoContract),
     Action(DEPLOY_CONTRACT, "A", <<Dependency(CONTRACT, "A")>>, NoDict,
            INITED, NoContract),
     Action(DEPLOY_CONTRACT, "B", <<Dependency(LIBRARY, "A")>>, NoDict,
            INITED, NoContract),
     Action(DEPLOY_CONTRACT, "A", <<Dependency(LIBRARY, "A"),
                                    Dependency(CONSTRUCTOR, "B")>>, EmptyDict,
            INITED, NoContract),
     Action(DEPLOY_CONTRACT, "B", <<Dependency(CONTRACT, "")>>, NoDict,
            INITED, NoContract),
     Action(METHOD_CALL, NoneV, <<Dependency(CONTRACT, "B")>>, NoDict,
            INITED, NoContract),
     Action(DEPLOY_PROXY, NoneV, <<>>, NoDict, INITED, NoContract),
     Action(DEPLOY_PROXY, NoneV, <<Dependency(CONTRACT, "A")>>, NoDict,
            INITED, NoContract),
     Action(DEPLOY_PROXY, NoneV, <<Dependency(IMPL, "A")>>, NoDict,
            INITED, NoContract),
     Action(DEPLOY_PROXY, "B", <<Dependency(CONTRACT, "A"),
                                 Dependency(IMPL, "B")>>, NoDict,
            INITED, NoContract)}
Candidates == UNION {[1..n -> CandidatePool] : n \in 1..MaxLen}

\* ----------------------------------------------------------------- state
VARIABLES
    plan,       \* the actions the Workflow was constructed with
    act,        \* heap: id -> the Action object, as mutated so far
    actions,    \* workflow.actions, a sequence of ids
    completed,  \* workflow.completed: key -> id, 0 when the key is absent
    pc,         \* "idle", "loop", or the Executor operation awaited
    i,          \* position of the for loop of deploy in workflow.actions
    count,      \* the local count of deploy
    ret,        \* how the last deploy call ended: returned or raised
    pass,       \* history of the current (or last) deploy call
    runKind,    \* history of the calls: which scenario the run follows
    promoted,   \* history: ids ever inserted into completed
    succeeded,  \* history: <<id, operation>> for each operation that has
                \* returned without error for the action id
    handler     \* history of the current handler invocation

vars == <<plan, act, actions, completed, pc, i, count, ret, pass, runKind,
          promoted, succeeded, handler>>

NewPass == [op |-> NoneV, err |-> NoneV, failed |-> 0,
            promoted |-> <<>>, removed |-> <<>>]
NoHandler == [id |-> 0, state |-> NoneV, contract |-> NoContract, ops |-> <<>>]
Call(op, contract, libraries) ==
    [op |-> op, contract |-> contract, libraries |-> libraries]

InitOver(plans) ==
    /\ plan \in plans
    /\ act = plan
    /\ actions = [n \in 1..Len(plan) |-> n]
    /\ completed = [k \in Keys |-> 0]
    /\ pc = "idle"
    /\ i = 0
    /\ count = 0
    /\ ret = "none"
    /\ pass = NewPass
    /\ runKind = "fresh"
    /\ promoted = {}
    /\ succeeded = {}
    /\ handler = NoHandler

Init == InitOver(Plans)
InitSeeded == InitOver(SeededPlans)
InitResumed == InitOver(ResumedPlans)
InitLink == InitOver(LinkPlans)

\* ---------------------------------------------------------------- driver
InLoop == pc = "loop" /\ i <= Len(actions)
\* the `action` of the current iteration of the for loop
Cur == actions[i]
\* what self.dependencies(action, workflow.completed) gives for it
Resolved == dependencies(Cur, act[Cur], completed, act)
\* the action when its handler is entered: error_message has been cleared
Ready == [Resolved.action EXCEPT !.error_message = NoneV]
Dispatch == InLoop /\ ~Resolved.raised /\ Resolved.err = NoneV /\ Resolved.carry_on

HandlerEntry(op, contract, libraries) ==
    [id |-> Cur, state |-> Ready.action_state, contract |-> Ready.contract,
     ops |-> <<Call(op, contract, libraries)>>]

\* a driver that returns without slicing the promoted prefix off actions
Return_unsliced(newAct, newPass) ==
    /\ act' = newAct
    /\ actions' = actions
    /\ pass' = [newPass EXCEPT !.removed = <<>>]
    /\ pc' = "idle"
    /\ ret' = "returned"
    /\ i' = 0
    /\ count' = 0
    /\ runKind' = "other"
    /\ handler' = NoHandler
    /\ UNCHANGED <<plan, completed, promoted, succeeded>>

\* workflow.actions = workflow.actions[count:]; return workflow
Return(newAct, newPass) ==
    /\ act' = newAct
    /\ actions' = SubSeq(actions, count + 1, Len(actions))
    /\ pass' = [newPass EXCEPT !.removed = SubSeq(actions, 1, count)]
    /\ pc' = "idle"
    /\ ret' = "returned"
    /\ i' = 0
    /\ count' = 0
    /\ runKind' = CASE runKind = "first" ->
                         IF newPass.op # NoneV THEN "failed_once"
                         ELSE IF newPass.failed = 0 THEN "clean" ELSE "other"
                    [] runKind = "second" ->
                         IF newPass.op = NoneV THEN "healed" ELSE "other"
                    [] OTHER -> "other"
    /\ handler' = NoHandler
    /\ UNCHANGED <<plan, completed, promoted, succeeded>>

\* an exception leaves deploy: the slice of workflow.actions is not reached
Raise(newAct) ==
    /\ act' = newAct
    /\ pc' = "idle"
    /\ ret' = "raised"
    /\ i' = 0
    /\ count' = 0
    /\ runKind' = "other"
    /\ handler' = NoHandler
    /\ UNCHANGED <<plan, actions, completed, pass, promoted, succeeded>>

\* a failure that also marks the actions after the failing one
Fail_cascading(a, op) ==
    Return([id \in DOMAIN act |->
               IF id = Cur THEN a
               ELSE IF \E n \in (i + 1)..Len(actions) : actions[n] = id
                    THEN [act[id] EXCEPT !.action_state = FAILED_DEPENDENCIES]
                    ELSE act[id]],
           [pass EXCEPT !.op = op, !.err = ErrorOf(op), !.failed = Cur])

\* the handler returned (action, False): break
Fail(a, op) ==
    Return([act EXCEPT ![Cur] = a],
           [pass EXCEPT !.op = op, !.err = ErrorOf(op), !.failed = Cur])

\* count += 1; workflow.completed[action.contract_name] = action
Promote(a) ==
    /\ act' = [act EXCEPT ![Cur] = a]
    /\ completed' = [completed EXCEPT ![a.contract_name] = Cur]
    /\ count' = count + 1
    /\ i' = i + 1
    /\ pc' = "loop"
    /\ promoted' = promoted \cup {Cur}
    /\ succeeded' = succeeded \cup {<<Cur, pc>>}
    /\ pass' = [pass EXCEPT !.promoted = Append(@, Cur)]
    /\ UNCHANGED <<plan, actions, ret, runKind, handler>>

\* a deploy that starts over from the plan when nothing is pending
Deploy_rewinding ==
    /\ pc = "idle"
    /\ pc' = "loop"
    /\ i' = 1
    /\ count' = 0
    /\ ret' = "running"
    /\ pass' = NewPass
    /\ handler' = NoHandler
    /\ runKind' = "other"
    /\ actions' = IF actions = <<>> THEN [n \in 1..Len(plan) |-> n]
                   ELSE actions
    /\ UNCHANGED <<plan, act, completed, promoted, succeeded>>

\* the caller invokes deploy(workflow)
Deploy ==
    /\ pc = "idle"
    /\ pc' = "loop"
    /\ i' = 1
    /\ count' = 0
    /\ ret' = "running"
    /\ pass' = NewPass
    /\ handler' = NoHandler
    /\ runKind' = CASE runKind = "fresh" -> "first"
                    [] runKind = "failed_once" -> "second"
                    [] OTHER -> "other"
    /\ UNCHANGED <<plan, act, actions, completed, promoted, succeeded>>

\* the for loop is exhausted
LoopEnd ==
    /\ pc = "loop"
    /\ i > Len(actions)
    /\ Return(act, pass)

\* the resolver raises (CONSTRUCTOR injection into args that is None, or
\* encode_calldata on an implementation contract without metadata)
ResolveRaises ==
    /\ InLoop
    /\ Resolved.raised
    /\ Raise([act EXCEPT ![Cur] = Resolved.action])

\* if err: FAILED_DEPENDENCIES, break
ResolveFails ==
    /\ InLoop
    /\ ~Resolved.raised
    /\ Resolved.err # NoneV
    /\ Return([act EXCEPT ![Cur] =
                  [Resolved.action EXCEPT !.action_state = FAILED_DEPENDENCIES,
                                          !.error_message = Resolved.err]],
              [pass EXCEPT !.failed = Cur])

\* if not carry_on: continue (count is not incremented)
SkipCompleted ==
    /\ InLoop
    /\ ~Resolved.raised
    /\ Resolved.err = NoneV
    /\ ~Resolved.carry_on
    /\ act' = [act EXCEPT ![Cur] = Ready]
    /\ i' = i + 1
    /\ UNCHANGED <<plan, actions, completed, pc, count, ret, pass, runKind,
                   promoted, succeeded, handler>>

\* handle_deploy_library up to await self.deploy_library(...)
EnterLibrary ==
    /\ Dispatch
    /\ Ready.action_type = DEPLOY_LIBRARY
    /\ act' = [act EXCEPT ![Cur] = handle_deploy_library_enter(Ready)]
    /\ pc' = "deploy_library"
    /\ handler' = HandlerEntry("deploy_library", NoContract, NoDict)
    /\ UNCHANGED <<plan, actions, completed, i, count, ret, pass, runKind,
                   promoted, succeeded>>

\* handle_methodcall up to await self.submit_transaction(...)
EnterMethodCall ==
    /\ Dispatch
    /\ Ready.action_type = METHOD_CALL
    /\ Ready.contract.some
    /\ act' = [act EXCEPT ![Cur] = Ready]
    /\ pc' = "submit_transaction"
    /\ handler' = HandlerEntry("submit_transaction", Ready.contract, NoDict)
    /\ UNCHANGED <<plan, actions, completed, i, count, ret, pass, runKind,
                   promoted, succeeded>>

\* handle_methodcall: action.contract.api_name with action.contract None
MethodCallRaises ==
    /\ Dispatch
    /\ Ready.action_type = METHOD_CALL
    /\ ~Ready.contract.some
    /\ Raise([act EXCEPT ![Cur] = Ready])

\* handle_deploy_contract, entered directly or from handle_deploy_proxy, up
\* to its first await: compile_contract, or deploy_contract when phase 1 is
\* skipped
EnterContract ==
    /\ Dispatch
    /\ \/ Ready.action_type = DEPLOY_CONTRACT
       \/ /\ Ready.action_type = DEPLOY_PROXY
          /\ Ready.action_state # FAILED_SET_PROXY
    /\ act' = [act EXCEPT ![Cur] = Ready]
    /\ IF needs_compile(Ready)
       THEN /\ pc' = "compile_contract"
            /\ handler' = HandlerEntry("compile_contract", NoContract,
                                       Ready.libraries)
       ELSE /\ pc' = "deploy_contract"
            /\ handler' = HandlerEntry("deploy_contract", Ready.contract, NoDict)
    /\ UNCHANGED <<plan, actions, completed, i, count, ret, pass, runKind,
                   promoted, succeeded>>

\* handle_deploy_proxy entered in state FAILED_SET_PROXY: straight to
\* await self.set_proxy(...)
EnterSetProxy ==
    /\ Dispatch
    /\ Ready.action_type = DEPLOY_PROXY
    /\ Ready.action_state = FAILED_SET_PROXY
    /\ act' = [act EXCEPT ![Cur] = Ready]
    /\ pc' = "set_proxy"
    /\ handler' = HandlerEntry("set_proxy", Ready.contract, NoDict)
    /\ UNCHANGED <<plan, actions, completed, i, count, ret, pass, runKind,
                   promoted, succeeded>>

\* what an Executor operation returns: (value, None) or (None, error)
Value(ok, v) == IF ok THEN v ELSE NoContract
Error(ok, op) == IF ok THEN NoneV ELSE ErrorOf(op)

\* deploy_library returns
DeployLibraryReturns(ok) ==
    /\ pc = "deploy_library"
    /\ LET r == handle_deploy_library_result(act[Cur],
                    Value(ok, deploy_library(act[Cur].contract_name)),
                    Error(ok, "deploy_library"))
       IN  IF r.carry_on THEN Promote(r.action)
           ELSE Fail(r.action, "deploy_library")

\* compile_contract returns; on success the handler goes on to
\* await self.deploy_contract(contract=contract, ...)
CompileReturns(ok) ==
    /\ pc = "compile_contract"
    /\ LET r == handle_deploy_contract_compiled(act[Cur],
                    Value(ok, compile_contract(act[Cur].contract_name)),
                    Error(ok, "compile_contract"))
       IN  IF r.carry_on
           THEN /\ act' = [act EXCEPT ![Cur] = r.action]
                /\ pc' = "deploy_contract"
                /\ handler' = [handler EXCEPT !.ops =
                      Append(@, Call("deploy_contract", r.action.contract, NoDict))]
                /\ succeeded' = succeeded \cup {<<Cur, pc>>}
                /\ UNCHANGED <<plan, actions, completed, i, count, ret, pass,
                               runKind, promoted>>
           ELSE Fail(r.action, "compile_contract")

\* deploy_contract returns; for a proxy the handler goes on to
\* await self.set_proxy(...)
DeployContractReturns(ok) ==
    /\ pc = "deploy_contract"
    /\ LET r == handle_deploy_contract_deployed(act[Cur],
                    Value(ok, deploy_contract(act[Cur].contract,
                                              act[Cur].api_name)),
                    Error(ok, "deploy_contract"))
       IN  IF ~r.carry_on THEN Fail(r.action, "deploy_contract")
           ELSE IF r.action.action_type = DEPLOY_PROXY
           THEN /\ act' = [act EXCEPT ![Cur] = r.action]
                /\ pc' = "set_proxy"
                /\ handler' = [handler EXCEPT !.ops =
                      Append(@, Call("set_proxy", r.action.contract, NoDict))]
                /\ succeeded' = succeeded \cup {<<Cur, pc>>}
                /\ UNCHANGED <<plan, actions, completed, i, count, ret, pass,
                               runKind, promoted>>
           ELSE Promote(r.action)

\* submit_transaction returns
SubmitReturns(ok) ==
    /\ pc = "submit_transaction"
    /\ LET r == handle_methodcall_result(act[Cur], Error(ok, "submit_transaction"))
       IN  IF r.carry_on THEN Promote(r.action)
           ELSE Fail(r.action, "submit_transaction")

\* set_proxy returns
SetProxyReturns(ok) ==
    /\ pc = "set_proxy"
    /\ LET r == handle_deploy_proxy_result(act[Cur], Error(ok, "set_proxy"))
       IN  IF r.carry_on THEN Promote(r.action)
           ELSE Fail(r.action, "set_proxy")

Next ==
    \/ Deploy
    \/ LoopEnd
    \/ ResolveRaises
    \/ ResolveFails
    \/ SkipCompleted
    \/ EnterLibrary
    \/ EnterMethodCall
    \/ MethodCallRaises
    \/ EnterContract
    \/ EnterSetProxy
    \/ \E ok \in BOOLEAN : DeployLibraryReturns(ok)
    \/ \E ok \in BOOLEAN : CompileReturns(ok)
    \/ \E ok \in BOOLEAN : DeployContractReturns(ok)
    \/ \E ok \in BOOLEAN : SubmitReturns(ok)
    \/ \E ok \in BOOLEAN : SetProxyReturns(ok)

Spec == Init /\ [][Next]_vars
\* the same engine on plans that may hold actions COMPLETED on entry
SpecSeeded == InitSeeded /\ [][Next]_vars
\* the same engine on plans with contracts that link against libraries
SpecLink == InitLink /\ [][Next]_vars
\* the same engine on plans whose first action is FAILED_COMPILE on entry
InitAdopting == InitOver(AdoptingPlans)
SpecAdopting == InitAdopting /\ [][Next]_vars
InitBare == InitOver(BarePlans)
SpecBare == InitBare /\ [][Next]_vars
SpecResumed == InitResumed /\ [][Next]_vars

\* ---------------------------------------------------------- cancellation
\* The host runtime cancels the deploy task while it is suspended in an
\* Executor operation: CancelledError is raised at that await and leaves the
\* handler and deploy, which catch nothing; the slice of workflow.actions is
\* not reached.  The pass records the operation and the action interrupted.
Cancel ==
    /\ pc \in {"deploy_library", "compile_contract", "deploy_contract",
               "submit_transaction", "set_proxy"}
    /\ pass' = [pass EXCEPT !.op = pc, !.err = "CancelledError",
                            !.failed = Cur]
    /\ pc' = "idle"
    /\ ret' = "cancelled"
    /\ i' = 0
    /\ count' = 0
    /\ runKind' = "other"
    /\ handler' = NoHandler
    /\ UNCHANGED <<plan, act, actions, completed, promoted, succeeded>>

NextCancel ==
    \/ Next
    \/ Cancel

SpecCancel == Init /\ [][NextCancel]_vars

\* ---------------------------------------------------------- the resolver
\* Executor.dependencies applied, twice in a row, to one action against a
\* completed table: two parents on the heap, each in or out of the table,
\* and a subject action with up to MaxLen - 1 dependencies of any kind and
\* order.
ParentA ==
    {Action(DEPLOY_LIBRARY, "A", <<>>, NoDict, COMPLETED, deploy_library("A")),
     Action(DEPLOY_CONTRACT, "A", <<>>, NoDict, COMPLETED,
            deploy_contract(compile_contract("A"), "api"))}
ParentB ==
    {Action(DEPLOY_LIBRARY, "B", <<>>, NoDict, COMPLETED, deploy_library("B")),
     Action(DEPLOY_LIBRARY, "B", <<>>, NoDict, FAILED_COMPLETE, NoContract)}
ResolverDependencies ==
    {Dependency(LIBRARY, "A"), Dependency(LIBRARY, "B"),
     Dependency(CONSTRUCTOR, "A"), Dependency(CONTRACT, "A"),
     Dependency(CONTRACT, "B"), Dependency(IMPL, "A")}
Subjects ==
    {Action(DEPLOY_CONTRACT, LinkedName, d, args, st, NoContract) :
        d \in UNION {[1..n -> ResolverDependencies] : n \in 0..(MaxLen - 1)},
        args \in {NoDict, EmptyDict},
        st \in {INITED, FAILED_COMPLETE, COMPLETED}}
Subject == 3
\* what the resolver returned: (should_run, error), or that it raised
Returns(r) == [carry_on |-> r.carry_on, err |-> r.err, raised |-> r.raised]

InitResolve ==
    /\ plan \in {<<a, b, c>> : a \in ParentA, b \in ParentB, c \in Subjects}
    /\ act = plan
    /\ actions = <<Subject>>
    /\ completed \in {[k \in Keys |-> IF k = "A" THEN ia
                                       ELSE IF k = "B" THEN ib ELSE 0] :
                         ia \in {0, 1}, ib \in {0, 2}}
    /\ pc = "new"
    /\ i = 1
    /\ count = 0
    /\ ret = Returns(unresolved(NoneV, NoneV))
    /\ pass = NewPass
    /\ runKind = "fresh"
    /\ promoted = {}
    /\ succeeded = {}
    /\ handler = NoHandler

\* carry_on, err = await self.dependencies(action, completed)
ResolveOnce ==
    /\ pc = "new"
    /\ pc' = "once"
    /\ act' = [act EXCEPT ![Subject] = Resolved.action]
    /\ ret' = Returns(Resolved)
    /\ UNCHANGED <<plan, actions, completed, i, count, pass, runKind,
                   promoted, succeeded, handler>>

\* the same call again, on the action as the first call left it
ResolveAgain ==
    /\ pc = "once"
    /\ pc' = "twice"
    /\ act' = [act EXCEPT ![Subject] = Resolved.action]
    /\ ret' = Returns(Resolved)
    /\ UNCHANGED <<plan, actions, completed, i, count, pass, runKind,
                   promoted, succeeded, handler>>

NextResolve ==
    \/ ResolveOnce
    \/ ResolveAgain

SpecResolve == InitResolve /\ [][NextResolve]_vars

\* ------------------------------------------------------ the constructor
\* Workflow(actions=...) on a candidate plan: the root validator accepts it
\* or raises
InitCheck ==
    /\ plan \in Candidates
    /\ act = plan
    /\ actions = [n \in 1..Len(plan) |-> n]
    /\ completed = [k \in Keys |-> 0]
    /\ pc = "new"
    /\ i = 0
    /\ count = 0
    /\ ret = "none"
    /\ pass = NewPass
    /\ runKind = "fresh"
    /\ promoted = {}
    /\ succeeded = {}
    /\ handler = NoHandler

Accept ==
    /\ pc = "new"
    /\ check(plan)
    /\ pc' = "accepted"
    /\ UNCHANGED <<plan, act, actions, completed, i, count, ret, pass,
                   runKind, promoted, succeeded, handler>>

Reject ==
    /\ pc = "new"
    /\ ~check(plan)
    /\ pc' = "rejected"
    /\ UNCHANGED <<plan, act, actions, completed, i, count, ret, pass,
                   runKind, promoted, succeeded, handler>>

NextCheck ==
    \/ Accept
    \/ Reject

SpecCheck == InitCheck /\ [][NextCheck]_vars

\* -------------------------------------------------- the fault-free run
\* handle_deploy_contract when compile_contract and deploy_contract succeed
clean_deploy_contract(a) ==
    LET c == IF needs_compile(a)
             THEN handle_deploy_contract_compiled(a,
                      compile_contract(a.contract_name), NoneV).action
             ELSE a
    IN  handle_deploy_contract_deployed(c,
            deploy_contract(c.contract, c.api_name), NoneV).action

\* the handler deploy dispatches to, when every Executor operation succeeds
clean_handle(a) ==
    CASE a.action_type = DEPLOY_LIBRARY ->
            handle_deploy_library_result(handle_deploy_library_enter(a),
                deploy_library(a.contract_name), NoneV).action
      [] a.action_type = METHOD_CALL ->
            handle_methodcall_result(a, NoneV).action
      [] a.action_type = DEPLOY_CONTRACT ->
            clean_deploy_contract(a)
      [] a.action_type = DEPLOY_PROXY ->
            handle_deploy_proxy_result(
                IF a.action_state # FAILED_SET_PROXY
                THEN clean_deploy_contract(a) ELSE a,
                NoneV).action

\* the for loop of deploy from position n on, every Executor operation
\* succeeding: the heap and the completed table it ends with
RECURSIVE clean_loop(_, _, _, _)
clean_loop(acts, n, heap, comp) ==
    IF n > Len(acts) THEN [act |-> heap, completed |-> comp]
    ELSE
      LET id == acts[n]
          r == dependencies(id, heap[id], comp, heap)
          a1 == [r.action EXCEPT !.error_message = NoneV]
      IN
      IF r.raised
      THEN [act |-> [heap EXCEPT ![id] = r.action], completed |-> comp]
      ELSE IF r.err # NoneV
      THEN [act |-> [heap EXCEPT ![id] =
                       [r.action EXCEPT !.action_state = FAILED_DEPENDENCIES,
                                        !.error_message = r.err]],
            completed |-> comp]
      ELSE IF ~r.carry_on
      THEN clean_loop(acts, n + 1, [heap EXCEPT ![id] = a1], comp)
      ELSE IF a1.action_type = METHOD_CALL /\ ~a1.contract.some
      THEN [act |-> [heap EXCEPT ![id] = a1], completed |-> comp]
      ELSE LET a2 == clean_handle(a1)
           IN  clean_loop(acts, n + 1, [heap EXCEPT ![id] = a2],
                          [comp EXCEPT ![a2.contract_name] = id])

\* a single deploy call on plan p in which no Executor operation fails
clean_deploy(p) ==
    clean_loop([n \in 1..Len(p) |-> n], 1, p, [k \in Keys |-> 0])

\* ------------------------------------------------------------- liveness
\* the synchronous code of deploy between two awaits
DriverStep ==
    \/ LoopEnd
    \/ ResolveRaises
    \/ ResolveFails
    \/ SkipCompleted
    \/ EnterLibrary
    \/ EnterMethodCall
    \/ MethodCallRaises
    \/ EnterContract
    \/ EnterSetProxy

\* The caller re-invokes deploy again and again, the code between awaits
\* runs, and every Executor operation that is tried again and again
\* eventually succeeds.
Fairness ==
    /\ WF_vars(Deploy)
    /\ WF_vars(DriverStep)
    /\ SF_vars(DeployLibraryReturns(TRUE))
    /\ SF_vars(CompileReturns(TRUE))
    /\ SF_vars(DeployContractReturns(TRUE))
    /\ SF_vars(SubmitReturns(TRUE))
    /\ SF_vars(SetProxyReturns(TRUE))

SpecLive == Init /\ [][Next]_vars /\ Fairness

\* ----------------------------------------------------------------- views
\* what a completed table shows of an entry: absent, or the completed
\* action's action_state, error_message and contract
Absent == [present |-> FALSE, action_state |-> NoneV, error_message |-> NoneV,
           contract |-> NoContract]
Entry(a) == [present |-> TRUE, action_state |-> a.action_state,
             error_message |-> a.error_message, contract |-> a.contract]
Table(heap, comp) ==
    [k \in Keys |-> IF comp[k] = 0 THEN Absent ELSE Entry(heap[comp[k]])]
CleanTable == LET c == clean_deploy(plan) IN Table(c.act, c.completed)

Returned == pc = "idle" /\ ret = "returned"

\* ---------------------------------------------------------------- claims

\* The stepwise driver and the fault-free run agree: a first deploy call in
\* which no Executor operation fails ends with the heap and the completed
\* table that clean_deploy computes.
CleanRunAgrees ==
    runKind = "clean" =>
        LET c == clean_deploy(plan) IN act = c.act /\ completed = c.completed

\* C1 (as claimed): resumption law.  When the first deploy call stopped on
\* an Executor failure and a second call, in which every Executor operation
\* succeeded, has returned, the completed table (keys, and per key the
\* action_state, error_message and contract) is the one a single
\* fault-free deploy call on the plan produces.
C1_ResumptionLaw ==
    runKind = "healed" => Table(act, completed) = CleanTable

\* the keys present in workflow.completed
CompletedKeys == {k \in Keys : completed[k] # 0}
\* the ids of the actions held in workflow.actions
Pending == {actions[n] : n \in 1..Len(actions)}
Range(seq) == {seq[n] : n \in 1..Len(seq)}

\* C2 (as claimed): after any deploy call, the keys of completed correspond
\* one to one to the promoted actions, which are a prefix of the plan: each
\* promoted action is found under its post-resolution contract_name, and
\* completed has as many entries as there are promoted actions.
C2_KeysMatchPromotedPrefix ==
    Returned =>
        /\ promoted = 1..Cardinality(promoted)
        /\ CompletedKeys = {act[id].contract_name : id \in promoted}
        /\ \A id \in promoted : completed[act[id].contract_name] = id
        /\ Cardinality(CompletedKeys) = Cardinality(promoted)

\* C3 (as claimed): when an Executor operation returned an error in a deploy
\* call, then on return actions[0].error_message is that error string.
C3_ErrorRecorded ==
    (Returned /\ pass.op # NoneV) =>
        /\ actions # <<>>
        /\ act[actions[1]].error_message = pass.err

\* the failure state each failing Executor operation leads to
FailureState(op) ==
    CASE op = "deploy_library" -> FAILED_COMPLETE
      [] op = "compile_contract" -> FAILED_COMPILE
      [] op = "deploy_contract" -> FAILED_COMPLETE
      [] op = "submit_transaction" -> FAILED_METHOD_CALL
      [] op = "set_proxy" -> FAILED_SET_PROXY
      [] OTHER -> FAILED_DEPENDENCIES

C5_RemovedArePromoted ==
    Returned =>
        /\ Range(pass.removed) = Range(pass.promoted)
        /\ \A id \in Range(pass.removed) : \E k \in Keys : completed[k] = id
        /\ Range(pass.promoted) \cap Pending = {}

\* C6 (as claimed): no error is thrown across the driver boundary: deploy
\* always returns normally.
C6_NeverRaises == ret # "raised"

\* C7 (as claimed): every action stored in completed has action_state
\* COMPLETED.
C7_CompletedStateIsCompleted ==
    \A k \in CompletedKeys : act[completed[k]].action_state = COMPLETED

\* an Executor operation is in flight
InFlight ==
    pc \in {"deploy_library", "compile_contract", "deploy_contract",
            "submit_transaction", "set_proxy"}

\* C9: a dependent action never runs before its parent: while an Executor
\* operation is in flight for an action, each of its dependencies finds
\* completed[parent] present with a contract attached, put there by a
\* promotion that happened before the operation was invoked.
C9_ParentBeforeChild ==
    InFlight =>
        \A k \in 1..Len(act[Cur].dependencies) :
            LET parent == act[Cur].dependencies[k].parent IN
            /\ completed[parent] # 0
            /\ completed[parent] \in promoted
            /\ act[completed[parent]].contract.some

\* C9 witness: an Executor operation is in flight for the third action of a
\* plan, which has a dependency
C9_Witness ==
    /\ InFlight
    /\ Cur = 3
    /\ Len(act[Cur].dependencies) > 0

\* C10: DEPLOY_CONTRACT phase skipping on retry.  (1) A failed
\* deploy_contract leaves the compiled contract, with its design_id, on the
\* action.  (2) A handler entered in state FAILED_COMPLETE with a contract
\* that carries a design_id calls no compile_contract; its first call is
\* deploy_contract, with the contract of that design_id; for a
\* DEPLOY_CONTRACT action that is its only call.
C10_CompileSkippedOnRetry ==
    /\ (Returned /\ pass.op = "deploy_contract") =>
          /\ act[pass.failed].contract.some
          /\ act[pass.failed].contract.design_id # NoneV
    /\ (/\ handler.id # 0
        /\ act[handler.id].action_type \in {DEPLOY_CONTRACT, DEPLOY_PROXY}
        /\ handler.state = FAILED_COMPLETE
        /\ handler.contract.some
        /\ handler.contract.design_id # NoneV) =>
          /\ \A n \in 1..Len(handler.ops) :
                handler.ops[n].op # "compile_contract"
          /\ handler.ops[1].op = "deploy_contract"
          /\ handler.ops[1].contract = handler.contract
          /\ act[handler.id].action_type = DEPLOY_CONTRACT =>
                Len(handler.ops) = 1

\* C10 witness: a DEPLOY_CONTRACT action that was retried from
\* FAILED_COMPLETE with the design_id of an earlier compile has been
\* deployed and promoted
C10_Witness ==
    /\ pc = "loop"
    /\ handler.id # 0
    /\ act[handler.id].action_type = DEPLOY_CONTRACT
    /\ handler.state = FAILED_COMPLETE
    /\ handler.contract.design_id # NoneV
    /\ act[handler.id].action_state = COMPLETED
    /\ handler.id \in promoted

\* C8 (as claimed): liveness of the resumable workflow.  For a validated
\* plan whose actions start INITED, with deploy re-invoked repeatedly and
\* failing Executor operations eventually succeeding, eventually
\* workflow.actions is empty and every action of the plan has been promoted.
C8_EventuallyAllPromoted ==
    <>(pc = "idle" /\ actions = <<>> /\ promoted = 1..Len(plan))

\* the handler invocation in progress is one of handle_deploy_contract
\* (reached directly or through handle_deploy_proxy)
InContractHandler ==
    /\ handler.id # 0
    /\ act[handler.id].action_type \in {DEPLOY_CONTRACT, DEPLOY_PROXY}

\* C11: DEPLOY_CONTRACT compile failure.  (1) On the step on which
\* compile_contract returns an error the action's state becomes
\* FAILED_COMPILE, the pass ends without a deploy_contract call, completed
\* is unchanged and the action is at actions[0].  (2) A handler entered in
\* state FAILED_COMPILE calls compile_contract first, whether or not the
\* action's contract carries a design_id.
C11_CompileFailureRetried ==
    [][/\ (pc = "compile_contract" /\ pass'.op = "compile_contract") =>
             /\ act'[Cur].action_state = FAILED_COMPILE
             /\ \A n \in 1..Len(handler.ops) :
                    handler.ops[n].op # "deploy_contract"
             /\ pc' = "idle" /\ ret' = "returned"
             /\ completed' = completed /\ promoted' = promoted
             /\ actions' # <<>> /\ actions'[1] = Cur
       /\ (InContractHandler /\ handler.state = FAILED_COMPILE) =>
             /\ handler.ops[1].op = "compile_contract"
             /\ \A n \in 2..Len(handler.ops) :
                    handler.ops[n].op # "compile_contract"
      ]_vars

\* C11 witness: an action entered in state FAILED_COMPILE with a design_id
\* on its contract has been compiled again and deploy_contract is in flight
C11_Witness ==
    /\ pc = "deploy_contract"
    /\ InContractHandler
    /\ handler.state = FAILED_COMPILE
    /\ handler.contract.design_id # NoneV
    /\ Len(handler.ops) = 2

\* C12: DEPLOY_LIBRARY failure and full retry.  (1) On the step on which
\* deploy_library returns an error the action's state becomes
\* FAILED_COMPLETE, the step attaches no contract to it (its contract is the
\* one it entered the handler with), completed is unchanged, the pass ends
\* and no other action is touched.  (2) A library handler entered in state
\* FAILED_COMPLETE invokes deploy_library again.  (3) On the step on which
\* deploy_library succeeds the action gets the contract that invocation
\* returned, its state is COMPLETED and it is stored in completed.
C12_LibraryFailureRetried ==
    [][/\ (pc = "deploy_library" /\ pass'.op = "deploy_library") =>
             /\ act'[Cur].action_state = FAILED_COMPLETE
             /\ act'[Cur].contract = handler.contract
             /\ completed' = completed /\ promoted' = promoted
             /\ pc' = "idle" /\ ret' = "returned"
             /\ \A id \in 1..Len(plan) : id # Cur => act'[id] = act[id]
       /\ (/\ handler.id # 0
           /\ act[handler.id].action_type = DEPLOY_LIBRARY
           /\ handler.state = FAILED_COMPLETE) =>
             /\ Len(handler.ops) = 1
             /\ handler.ops[1].op = "deploy_library"
       /\ (pc = "deploy_library" /\ pc' = "loop") =>
             /\ act'[Cur].contract = deploy_library(act[Cur].contract_name)
             /\ act'[Cur].action_state = COMPLETED
             /\ completed'[act[Cur].contract_name] = Cur
      ]_vars

\* C12 witness: a library whose deploy_library failed in an earlier pass
\* has been deployed by a later invocation and promoted
C12_Witness ==
    /\ pc = "loop"
    /\ handler.id # 0
    /\ act[handler.id].action_type = DEPLOY_LIBRARY
    /\ handler.state = FAILED_COMPLETE
    /\ ~handler.contract.some
    /\ handler.id \in promoted
    /\ act[handler.id].action_state = COMPLETED
    /\ act[handler.id].contract.some

\* the contract a proxy action carries once compile_contract and
\* deploy_contract have succeeded for it
DeployedProxy(a) ==
    deploy_contract(compile_contract(SIMBA_PROXY), a.api_name)

UnresolvedDep(id, k) ==
    LET parent == act[id].dependencies[k].parent IN
    \/ completed[parent] = 0
    \/ ~act[completed[parent]].contract.some

LibraryAddresses(id) ==
    {<<act[id].dependencies[k].parent,
       act[completed[act[id].dependencies[k].parent]].contract.address>> :
        k \in {n \in 1..Len(act[id].dependencies) :
                  act[id].dependencies[n].dependency_type = LIBRARY}}

\* C15: library linkage.  While compile_contract is in flight for a
\* DEPLOY_CONTRACT action with one or more dependencies, the libraries map
\* it was called with is exactly the map from the parent name of each
\* LIBRARY dependency to the address of that parent's completed contract.
C15_LibraryLinkage ==
    (/\ pc = "compile_contract"
     /\ act[Cur].action_type = DEPLOY_CONTRACT
     /\ Len(act[Cur].dependencies) > 0) =>
        LET call == handler.ops[Len(handler.ops)] IN
        /\ call.op = "compile_contract"
        /\ call.libraries.some
        /\ call.libraries.kv = LibraryAddresses(Cur)
        /\ \A p \in call.libraries.kv : p[2] # NoneV

\* C15 witness: compile_contract is in flight for a contract with two
\* LIBRARY dependencies on different parents, the second parent first
C15_Witness ==
    /\ pc = "compile_contract"
    /\ act[Cur].action_type = DEPLOY_CONTRACT
    /\ Len(act[Cur].dependencies) = 2
    /\ act[Cur].dependencies[1] = Dependency(LIBRARY, "B")
    /\ act[Cur].dependencies[2] = Dependency(LIBRARY, "A")
    /\ Cardinality(handler.ops[1].libraries.kv) = 2

\* action a has a dependency of type IMPL
HasImpl(a) ==
    \E k \in 1..Len(a.dependencies) : a.dependencies[k].dependency_type = IMPL

\* what the resolver leaves on action id for its IMPL dependency on `parent`
ImplInjected(id, parent) ==
    LET a == act[id]
        impl == act[completed[parent]].contract
    IN  /\ a.impl_contract = impl
        /\ a.contract_name = SIMBA_PROXY
        /\ a.encode = FALSE
        /\ a.code = load_proxy_encoded
        /\ a.args.some
        /\ {p[1] : p \in a.args.kv} = {"_logic", "_data"}
        /\ <<"_logic", impl.address>> \in a.args.kv

\* the part of C16 about the resolver: while an Executor operation is in
\* flight for an action with an IMPL dependency, the action carries what
\* the resolver injected for it
C16_Injected ==
    (InFlight /\ HasImpl(act[Cur])) =>
        \A k \in 1..Len(act[Cur].dependencies) :
            act[Cur].dependencies[k].dependency_type = IMPL =>
                ImplInjected(Cur, act[Cur].dependencies[k].parent)

\* C16 (as claimed): IMPL injection for proxies.  After the resolver has
\* processed an IMPL dependency the action has impl_contract equal to the
\* parent's completed contract, contract_name "SIMBAProxy", encode false,
\* code the proxy asset and args the encoder output with keys _logic and
\* _data, _logic being the implementation's address; and after full
\* success the action is found at completed["SIMBAProxy"].
C16_ImplInjection ==
    /\ C16_Injected
    /\ (Returned /\ actions = <<>> /\ promoted = 1..Len(plan)) =>
          \A id \in 1..Len(plan) :
              HasImpl(plan[id]) => completed[SIMBA_PROXY] = id

\* dependency k of the n-th action of the plan names the contract_name of
\* a strictly earlier action
ParentDeclaredEarlier(n, k) ==
    \E m \in 1..(n - 1) :
        plan[m].contract_name = plan[n].dependencies[k].parent

\* C17 (as claimed): validator, parent before child.  A plan is accepted
\* only if every dependency of every action names the contract_name of a
\* strictly earlier action; a plan with a dependency that does not is
\* rejected.
C17_ParentDeclaredBeforeChild ==
    pc = "accepted" =>
        \A n \in 1..Len(plan) : \A k \in 1..Len(plan[n].dependencies) :
            ParentDeclaredEarlier(n, k)

\* C18: validator, a proxy needs an implementation.  Every DEPLOY_PROXY
\* action of an accepted plan has a dependency of type IMPL, a plan with a
\* DEPLOY_PROXY action without one is rejected, and no accepted plan has a
\* DEPLOY_PROXY action first.
C18_ProxyNeedsImpl ==
    /\ pc = "accepted" =>
          /\ \A n \in 1..Len(plan) :
                plan[n].action_type = DEPLOY_PROXY => HasImpl(plan[n])
          /\ plan[1].action_type # DEPLOY_PROXY
    /\ (/\ pc # "new"
        /\ \E n \in 1..Len(plan) :
              plan[n].action_type = DEPLOY_PROXY /\ ~HasImpl(plan[n])) =>
          pc = "rejected"

\* C18 witness: an accepted plan whose last action is a proxy with an IMPL
\* dependency after a dependency of another type
C18_Witness ==
    /\ pc = "accepted"
    /\ Len(plan) = 3
    /\ plan[3].action_type = DEPLOY_PROXY
    /\ Len(plan[3].dependencies) = 2
    /\ plan[3].dependencies[2].dependency_type = IMPL

\* C19: idempotence on success.  A deploy call on a workflow whose
\* actions list is empty invokes no Executor operation and leaves actions,
\* completed and every completed action as they were.
C19_IdempotentOnSuccess ==
    [][actions = <<>> =>
          /\ actions' = actions
          /\ completed' = completed
          /\ act' = act
          /\ pc' \in {"idle", "loop"}
          /\ handler'.ops = <<>>]_vars

\* C19 witness: a deploy call made after every action was promoted has
\* returned
C19_Witness ==
    /\ Returned
    /\ actions = <<>>
    /\ pass.removed = <<>>
    /\ pass.op = NoneV
    /\ Len(plan) = 3
    /\ promoted = {1, 2, 3}

\* C20 (as claimed): cancellation.  When a deploy call has been cancelled
\* during an Executor operation, the action that operation was for is at the
\* head of workflow.actions and the actions promoted in the cancelled pass
\* are no longer in workflow.actions.
C20_CancelledLeavesCurrentAtHead ==
    (pc = "idle" /\ ret = "cancelled") =>
        /\ actions # <<>>
        /\ actions[1] = pass.failed
        /\ \A id \in Range(pass.promoted) : id \notin Range(actions)

\* a step of a deploy call at which dependency resolution errors or a
\* handler returns carry_on = False
FailureStep == ret = "running" /\ pass.failed = 0 /\ pass'.failed # 0

Succeeded(id, op) == <<id, op>> \in succeeded

\* C22 (as claimed): minimum redundant platform work.  Over any sequence of
\* deploy calls, no Executor operation is invoked for an action for which it
\* has already succeeded.
C22_SucceedsAtMostOnce ==
    [][\A op \in {"deploy_library", "compile_contract", "deploy_contract",
                  "submit_transaction", "set_proxy"} :
          (pc # op /\ pc' = op) => ~Succeeded(Cur, op)]_vars

\* the resolver returns (False, None) for an action in state COMPLETED and
\* the loop of deploy continues
TakesCompletedBranch ==
    pc = "loop" /\ i <= Len(actions) /\ act[Cur].action_state = COMPLETED

\* C23 (as claimed): completed actions are always moved out of the pending
\* list.  Whenever a deploy call returns, no action left in workflow.actions
\* is in state COMPLETED, and no deploy call takes the resolver's
\* already-completed branch.
C23_NoCompletedLeftPending ==
    [][/\ Returned' => \A id \in Pending' : act'[id].action_state # COMPLETED
       /\ ~TakesCompletedBranch']_vars

\* the handler of a DEPLOY_LIBRARY action that has a contract attached is
\* about to be entered
LibraryWithContract ==
    Dispatch /\ Ready.action_type = DEPLOY_LIBRARY /\ Ready.contract.some

\* C24: DEPLOY_LIBRARY with a contract already attached.  The handler
\* records INVALID_STATE with "Contract already exists" and goes on to call
\* deploy_library, once; it returns FAILED_COMPLETE with the executor's
\* error, or COMPLETED with the new contract and no error; no action is in
\* INVALID_STATE when deploy is not running.
C24_LibraryWithContract ==
    [][/\ LibraryWithContract =>
             /\ pc' = "deploy_library"
             /\ act'[Cur].action_state = INVALID_STATE
             /\ act'[Cur].error_message = "Contract already exists"
             /\ Len(handler'.ops) = 1
       /\ (pc = "deploy_library" /\ handler.contract.some) =>
             /\ Len(handler.ops) = 1
             /\ pc' \in {"idle", "loop"}
             /\ IF pc' = "idle"
                THEN /\ act'[Cur].action_state = FAILED_COMPLETE
                     /\ act'[Cur].error_message = ErrorOf("deploy_library")
                     /\ Cur \notin Range(pass'.promoted)
                ELSE /\ act'[Cur].action_state = COMPLETED
                     /\ act'[Cur].error_message = NoneV
                     /\ act'[Cur].contract =
                            deploy_library(act[Cur].contract_name)
                     /\ completed'[act[Cur].contract_name] = Cur
       /\ pc' = "idle" =>
             \A id \in DOMAIN act' : act'[id].action_state # INVALID_STATE]_vars

\* C24 witness: a deploy call has returned after promoting a library that
\* was handed over with a contract attached
C24_Witness ==
    /\ Returned
    /\ \E id \in Range(pass.promoted) :
          /\ plan[id].action_type = DEPLOY_LIBRARY
          /\ plan[id].contract.some
          /\ act[id].action_state = COMPLETED
          /\ act[id].contract = deploy_library(plan[id].contract_name)

\* C25 (as claimed): the placement of the libraries assignment is
\* observationally irrelevant.  For every action and completed table the
\* resolver as written leaves the action, and returns the pair, that a
\* resolver assigning action.libraries once after the loop would.
C25_LibrariesPlacement ==
    pc = "once" =>
        LET after == dependencies_after(Subject, plan[Subject], completed, plan)
        IN  /\ act[Subject] = after.action
            /\ ret = Returns(after)

\* C26: resolver idempotence.  For a non-COMPLETED action,
\* running dependency resolution a second time against the same completed
\* table changes no field of the action and returns what the first run
\* returned.
C26_ResolverIdempotent ==
    [][(pc = "once" /\ plan[Subject].action_state # COMPLETED) =>
          /\ act'[Subject] = act[Subject]
          /\ ret' = ret]_vars

\* C26 witness: the resolver has run twice, to the end, on an action with
\* an IMPL dependency followed by a CONSTRUCTOR dependency
C26_Witness ==
    /\ pc = "twice"
    /\ ret.carry_on
    /\ plan[Subject].action_state = FAILED_COMPLETE
    /\ Len(plan[Subject].dependencies) = 2
    /\ plan[Subject].dependencies[1].dependency_type = IMPL
    /\ plan[Subject].dependencies[2].dependency_type = CONSTRUCTOR
    /\ act[Subject].contract_name = SIMBA_PROXY

\* a step at which deploy executes
\* workflow.completed[action.contract_name] = action
Promotion == Len(pass'.promoted) > Len(pass.promoted)

\* C27 (as claimed): promotion never overwrites a completed record.  The
\* key under which the driver inserts an action into completed is not
\* present in completed before; and whenever a deploy call has returned the
\* number of entries of completed plus the number of actions left in
\* workflow.actions is the length of the plan.
C27_NoOverwrite ==
    [][/\ Promotion => completed[act'[Cur].contract_name] = 0
       /\ Returned' =>
             Cardinality(CompletedKeys') + Len(actions') = Len(plan)]_vars

\* C28 (as claimed): validation implies resolvability.  For a plan the
\* validator accepted, run from an empty completed table, dependency
\* resolution never fails: no action ever enters FAILED_DEPENDENCIES.
C28_ValidationImpliesResolvability ==
    \A id \in DOMAIN act : act[id].action_state # FAILED_DEPENDENCIES

\* C29 (as claimed): all resumption state lives in the head action.  For a
\* plan whose actions all start INITED with no contract, whenever a deploy
\* call returns, every action of workflow.actions after the first is in
\* state INITED with no error_message and no contract.
C29_ResumptionStateInHead ==
    (Returned /\ \A n \in 1..Len(plan) : ~plan[n].contract.some) =>
        \A n \in 2..Len(actions) :
            /\ act[actions[n]].action_state = INITED
            /\ act[actions[n]].error_message = NoneV
            /\ ~act[actions[n]].contract.some

\* C30 (as claimed): completed actions carry no stale error.  Every action
\* held in workflow.completed has no error_message, whatever failures it
\* went through before.
C30_NoStaleError ==
    \A k \in CompletedKeys : act[completed[k]].error_message = NoneV

\* the contract attached to the action is one deploy_contract returned for
\* it: the operation has succeeded for the action and the contract carries
\* what the operation sets
FromDeployContract(id) ==
    /\ Succeeded(id, "deploy_contract")
    /\ act[id].contract.some
    /\ act[id].contract = deploy_contract(act[id].contract, act[id].api_name)

\* C31 (as claimed): action states are type-compatible in every reachable state.
\* FAILED_METHOD_CALL occurs only on METHOD_CALL actions, FAILED_SET_PROXY
\* only on DEPLOY_PROXY actions, COMPILED and FAILED_COMPILE only on
\* DEPLOY_CONTRACT and DEPLOY_PROXY actions, FAILED_COMPLETE on every type
\* but METHOD_CALL; a DEPLOY_PROXY action in state FAILED_SET_PROXY has
\* attached a contract returned by a successful deploy_contract.
C31_TypeCompatibleStates ==
    \A id \in DOMAIN act :
        LET type == act[id].action_type
            state == act[id].action_state
        IN  /\ state = FAILED_METHOD_CALL => type = METHOD_CALL
            /\ state = FAILED_SET_PROXY => type = DEPLOY_PROXY
            /\ state \in {COMPILED, FAILED_COMPILE} =>
                  type \in {DEPLOY_CONTRACT, DEPLOY_PROXY}
            /\ state = FAILED_COMPLETE =>
                  type \in {DEPLOY_LIBRARY, DEPLOY_CONTRACT, DEPLOY_PROXY}
            /\ (type = DEPLOY_PROXY /\ state = FAILED_SET_PROXY) =>
                  FromDeployContract(id)

====
